---- MODULE Spec2Model ----
(***************************************************************************)
(* Model of the KP astrology system: the significator derivation of the    *)
(* chart view (app.py), the degree <-> DMS conversion and the house-cusp   *)
(* pipeline (kp.py).                                                       *)
(*                                                                         *)
(* A Python string is a sequence of tokens.  A token is one character      *)
(* (",", " ", "-", a digit, a degree glyph, a quote) or one planet name,   *)
(* which contains no separator and is therefore never split.               *)
(***************************************************************************)
EXTENDS Integers, Sequences, FiniteSets, TLC

VARIABLES
    chart_data,             \* the stored chart record read by the chart view
    house_lords,            \* chart(): house key -> lordship triple
    planet_lords,           \* chart(): planet code -> lordship triple
    significators,          \* chart(): house number -> [A, B, C, D]
    planet_significators,   \* chart(): planet name -> [A, B, C, D] house lists
    view_pc,                \* "start" before the chart view ran, "done" after
    error_message,          \* chart(): the error of the response, NoError when it has none
    master_ids,             \* the identifiers kp_master_table names the nine lords by
    deg_in,                 \* _dms(): the input angle, in 1/SubSec arcseconds
    dms_out,                \* _dms(): the emitted fields and string
    angle_in,               \* the angle string handed to the angle parser
    parsed,                 \* the angle parser's result on angle_in
    cusp_in,                \* compute_chalit_house_cusps(): its arguments and stage values
    cusp_out,               \* compute_chalit_house_cusps(): raised error or returned rows
    house_angles,           \* KPChart.get_house_angles(): the returned dict
    equal_out,              \* compute_equal_house_cusps(): raised error or returned rows
    kp_charts,              \* the KPChart objects, by object number
    analyses,               \* analyze_chart(): the dict returned for each object, and when
    clock,                  \* logical time: the analyses executed so far
    returned,               \* the KPChart getter called last, its object and its result
    members,                \* members.json: user key -> chart name -> chart data
    session,                \* the session of the browser: logged_in and username
    request,                \* the request handled last
    response,               \* the response to it
    workers                 \* server processes inside a members-file operation

sigVars  == <<chart_data, house_lords, planet_lords, significators, planet_significators, view_pc,
              error_message, master_ids>>
dmsVars  == <<deg_in, dms_out, angle_in, parsed>>
callVars == <<cusp_in, cusp_out, house_angles, equal_out>>
objVars  == <<kp_charts, analyses, clock, returned>>
cuspVars == <<callVars, objVars>>
storeVars == <<members, session, request, response, workers>>
vars     == <<sigVars, dmsVars, cuspVars, storeVars>>

(***************************************************************************)
(* Python string and list primitives                                       *)
(***************************************************************************)
Dash == <<"-">>
CommaSpace == <<",", " ">>
Comma == <<",">>

Range(s) == {s[i] : i \in 1..Len(s)}

\* list membership: x in lst
In(x, lst) == \E i \in 1..Len(lst) : lst[i] = x

RECURSIVE SplitFrom(_, _, _, _)
SplitFrom(s, sep, i, cur) ==
    IF i > Len(s) THEN <<cur>>
    ELSE IF i + Len(sep) - 1 <= Len(s) /\ SubSeq(s, i, i + Len(sep) - 1) = sep
         THEN <<cur>> \o SplitFrom(s, sep, i + Len(sep), <<>>)
         ELSE SplitFrom(s, sep, i + 1, Append(cur, s[i]))

\* str.split(sep): non-overlapping occurrences left to right, empty pieces kept
split(s, sep) == SplitFrom(s, sep, 1, <<>>)

RECURSIVE lstrip(_)
lstrip(s) == IF s # <<>> /\ Head(s) = " " THEN lstrip(Tail(s)) ELSE s

RECURSIVE rstrip(_)
rstrip(s) == IF s # <<>> /\ s[Len(s)] = " " THEN rstrip(SubSeq(s, 1, Len(s) - 1)) ELSE s

\* str.strip()
strip(s) == rstrip(lstrip(s))

RECURSIVE join(_, _)
\* sep.join(lst)
join(lst, sep) ==
    IF lst = <<>> THEN <<>>
    ELSE IF Len(lst) = 1 THEN lst[1]
    ELSE lst[1] \o sep \o join(Tail(lst), sep)

RECURSIVE replace(_, _, _)
\* str.replace(old, new) for a one-token old
replace(s, old, new) ==
    IF s = <<>> THEN <<>>
    ELSE (IF Head(s) = old THEN new ELSE <<Head(s)>>) \o replace(Tail(s), old, new)

RECURSIVE NonEmpty(_)
NonEmpty(lst) ==
    IF lst = <<>> THEN <<>>
    ELSE (IF Head(lst) = <<>> THEN <<>> ELSE <<Head(lst)>>) \o NonEmpty(Tail(lst))

\* str.split() without argument: pieces between runs of whitespace
split_ws(s) == NonEmpty(split(s, <<" ">>))

(***************************************************************************)
(* Planet identifiers.  The Korean planet names of the source are written  *)
(* in romanised form: Taeyang (sun), Dal (moon), Hwaseong (mars), Suseong  *)
(* (mercury), Mokseong (jupiter), Geumseong (venus), Toseong (saturn),     *)
(* Rahu, Ketu.                                                             *)
(***************************************************************************)
planets == <<"sun", "moon", "mercury", "venus", "mars", "jupiter", "saturn", "rahu", "ketu">>

planet_names ==
    [c \in {"Su", "Mo", "Ma", "Me", "Ju", "Ve", "Sa", "Ra", "Ke",
            "sun", "moon", "mercury", "venus", "mars", "jupiter", "saturn", "rahu", "ketu"} |->
        CASE c \in {"Su", "sun"}     -> "Taeyang"
          [] c \in {"Mo", "moon"}    -> "Dal"
          [] c \in {"Ma", "mars"}    -> "Hwaseong"
          [] c \in {"Me", "mercury"} -> "Suseong"
          [] c \in {"Ju", "jupiter"} -> "Mokseong"
          [] c \in {"Ve", "venus"}   -> "Geumseong"
          [] c \in {"Sa", "saturn"}  -> "Toseong"
          [] c \in {"Ra", "rahu"}    -> "Rahu"
          [] c \in {"Ke", "ketu"}    -> "Ketu"]

\* planet_names.get(planet_code, planet_code)
get_planet_name(planet_code) ==
    IF planet_code \in DOMAIN planet_names THEN planet_names[planet_code] ELSE planet_code

Houses == 1..12

(***************************************************************************)
(* Angles.  An angle is an integer count of 1/SubSec arcseconds, so that   *)
(* the rounding of _dms to the nearest arcsecond has something to round.   *)
(***************************************************************************)
SubSec == 4
ArcSec == SubSec                \* one arcsecond
ArcMin == 60 * ArcSec
Degree == 60 * ArcMin
FullCircle == 360 * Degree

Digits == <<"0", "1", "2", "3", "4", "5", "6", "7", "8", "9">>
DigitSet == Range(Digits)
DigitVal(c) == (CHOOSE i \in 1..10 : Digits[i] = c) - 1

RECURSIVE decimal(_)
\* str(n) for n >= 0
decimal(n) == IF n < 10 THEN <<Digits[n + 1]>> ELSE decimal(n \div 10) \o <<Digits[(n % 10) + 1]>>

RECURSIVE zfill(_, _)
\* the format spec 0<w>d
zfill(s, w) == IF Len(s) >= w THEN s ELSE zfill(<<"0">> \o s, w)

\* round(n / q) to the nearest integer, ties to even (Python 3 round)
round(n, q) ==
    LET lo == n \div q
        r  == n % q
    IN  IF 2 * r < q THEN lo
        ELSE IF 2 * r > q THEN lo + 1
        ELSE IF lo % 2 = 0 THEN lo ELSE lo + 1

\* the carries of _dms: 60 seconds into the minute, 60 minutes into the degree
dms_carry(d, m, s) ==
    LET m1 == IF s = 60 THEN m + 1 ELSE m
        s1 == IF s = 60 THEN 0 ELSE s
        d1 == IF m1 = 60 THEN d + 1 ELSE d
        m2 == IF m1 = 60 THEN 0 ELSE m1
    IN  [d |-> d1, m |-> m2, s |-> s1]

dms_format(f) ==
    zfill(decimal(f.d), 3) \o <<"º">> \o zfill(decimal(f.m), 2) \o <<"'">>
        \o zfill(decimal(f.s), 2) \o <<"\"">>

dms_seconds_trunc(x) == (x % ArcMin) \div ArcSec

dms_seconds(x) == round(x % ArcMin, ArcSec)

\* _dms(deg): the fields after the carries, and the string
_dms(deg) ==
    LET x == deg % FullCircle
        d == x \div Degree
        m == (x % Degree) \div ArcMin
        s == dms_seconds(x)
        f == dms_carry(d, m, s)
    IN  [d |-> f.d, m |-> f.m, s |-> f.s, str |-> dms_format(f)]

(***************************************************************************)
(* The angle parser of the lordship resolution step                        *)
(***************************************************************************)
angle_parts_one_glyph(angle_str) ==
    LET a == replace(replace(angle_str, "\"", <<>>), "'", <<" ">>)
    IN  split_ws(replace(a, "°", <<" ">>))

\* angle_str.replace('"', '').replace("'", ' '), then
\* parts = angle_str.replace('°', ' ').replace('º', ' ').split()
angle_parts(angle_str) ==
    LET a == replace(replace(angle_str, "\"", <<>>), "'", <<" ">>)
    IN  split_ws(replace(replace(a, "°", <<" ">>), "º", <<" ">>))

\* float(w) accepts w; the words of this model are digit strings or garbage
is_float(w) == w # <<>> /\ \A i \in 1..Len(w) : w[i] \in DigitSet

RECURSIVE float(_)
float(w) == IF w = <<>> THEN 0 ELSE 10 * float(SubSeq(w, 1, Len(w) - 1)) + DigitVal(w[Len(w)])

\* total_degrees = degrees + minutes/60 + seconds/3600, or the ValueError of float()
total_degrees(angle_str) ==
    LET parts == angle_parts(angle_str)
    IN  IF Len(parts) = 0 THEN [kind |-> "skip"]
        ELSE IF \E i \in 1..Len(parts) : i <= 3 /\ ~is_float(parts[i]) THEN [kind |-> "raise"]
        ELSE [kind |-> "value",
              total |-> float(parts[1]) * Degree
                        + (IF Len(parts) > 1 THEN float(parts[2]) * ArcMin ELSE 0)
                        + (IF Len(parts) > 2 THEN float(parts[3]) * ArcSec ELSE 0)]

(***************************************************************************)
(* The lordship table.  kp_master_table is not part of the sources; it is  *)
(* modelled from its interface, lookup(degree) -> (sign lord, nakshatra    *)
(* lord, sub lord) over 12 signs of 30 degrees and 27 nakshatras of        *)
(* 13 degrees 20 minutes, each divided in Vimshottari proportion.          *)
(***************************************************************************)
SignLords == <<"Ma", "Ve", "Me", "Mo", "Su", "Me", "Ve", "Ma", "Ju", "Sa", "Sa", "Ju">>
NakLords  == <<"Ke", "Ve", "Su", "Mo", "Ma", "Ra", "Ju", "Sa", "Me">>
DasaYears == <<7, 20, 6, 10, 7, 18, 16, 19, 17>>
SignLen == 30 * Degree
NakLen  == 800 * ArcMin
SubLen(k) == (DasaYears[k] * NakLen) \div 120

RECURSIVE sub_lord_from(_, _, _)
sub_lord_from(k, off, n) ==
    IF off < SubLen(k) \/ n = 9 THEN k
    ELSE sub_lord_from((k % 9) + 1, off - SubLen(k), n + 1)

\* the table names a lord by its abbreviation or by its English name
EnglishNames ==
    [c \in {"Su", "Mo", "Ma", "Me", "Ju", "Ve", "Sa", "Ra", "Ke"} |->
        CASE c = "Su" -> "Sun"     [] c = "Mo" -> "Moon"    [] c = "Ma" -> "Mars"
          [] c = "Me" -> "Mercury" [] c = "Ju" -> "Jupiter" [] c = "Ve" -> "Venus"
          [] c = "Sa" -> "Saturn"  [] c = "Ra" -> "Rahu"    [] c = "Ke" -> "Ketu"]

master_id(c) == IF master_ids = "english" THEN EnglishNames[c] ELSE c

get_lords_from_master_table(total) ==
    IF total < 0 \/ total >= FullCircle THEN [kind |-> "raise"]
    ELSE LET nak == ((total \div NakLen) % 9) + 1
         IN  [kind |-> "value",
              sign_lord |-> master_id(SignLords[(total \div SignLen) + 1]),
              nakshatra_lord |-> master_id(NakLords[nak]),
              sub_lord |-> master_id(NakLords[sub_lord_from(nak, total % NakLen, 1)])]

(***************************************************************************)
(* chart(): lordship resolution                                            *)
(***************************************************************************)
Unresolved == [sign_lord |-> Dash, nakshatra_lord |-> Dash, sub_lord |-> Dash]

\* the body of the loop over house_angles / planet_angles for one truthy angle string:
\* "skip" when no entry is written, else the triple stored
resolve(angle_str) ==
    LET t == total_degrees(angle_str)
    IN  IF t.kind = "skip" THEN [kind |-> "skip"]
        ELSE IF t.kind = "raise" THEN [kind |-> "entry", lords |-> Unresolved]
        ELSE LET r == get_lords_from_master_table(t.total)
             IN  IF r.kind = "raise" THEN [kind |-> "entry", lords |-> Unresolved]
                 ELSE [kind |-> "entry",
                       lords |-> [sign_lord |-> <<get_planet_name(r.sign_lord)>>,
                                  nakshatra_lord |-> <<get_planet_name(r.nakshatra_lord)>>,
                                  sub_lord |-> <<get_planet_name(r.sub_lord)>>]]

\* the dict built by one resolution loop over the items of angles
resolve_all(angles) ==
    LET keys == {k \in DOMAIN angles : angles[k] # <<>> /\ resolve(angles[k]).kind = "entry"}
    IN  [k \in keys |-> resolve(angles[k]).lords]

(***************************************************************************)
(* chart(): significator derivation                                        *)
(***************************************************************************)
\* the iteration order of planet_lords.items(): insertion order, which is the
\* order in which generate_chart stores planet_angles
planet_items(pl) == SelectSeq(planets, LAMBDA p : p \in DOMAIN pl)

RECURSIVE Map(_, _)
Map(f(_), lst) == IF lst = <<>> THEN <<>> ELSE <<f(Head(lst))>> \o Map(f, Tail(lst))

\* A = house_lords.get(house_str, {}).get('sign_lord', '-')
A_of(hl, h) == IF h \in DOMAIN hl THEN hl[h].sign_lord ELSE Dash

\* the name appended to B_planets for a planet code
B_korean(planet_code) ==
    IF planet_code \in Range(planets) THEN <<planet_names[planet_code]>> ELSE <<planet_code>>

B_planets_no_guard(A, pl) ==
    Map(B_korean, SelectSeq(planet_items(pl), LAMBDA p : pl[p].nakshatra_lord = A))

B_planets_by_sign_lord(A, pl) ==
    IF A # Dash
    THEN Map(B_korean, SelectSeq(planet_items(pl), LAMBDA p : pl[p].sign_lord = A))
    ELSE <<>>

\* B_planets: the planets whose nakshatra lord is A, when A is resolved
B_planets(A, pl) ==
    IF A # Dash
    THEN Map(B_korean, SelectSeq(planet_items(pl), LAMBDA p : pl[p].nakshatra_lord = A))
    ELSE <<>>

\* C = house_planets.get(house_str, '-'), '-' when empty or blank
C_of(hp, h) ==
    LET C == IF h \in DOMAIN hp THEN hp[h] ELSE Dash
    IN  IF C = <<>> \/ strip(C) = <<>> THEN Dash ELSE C

\* c_planet_names = [p.strip() for p in C.split(',') if p.strip()]
c_planet_names(C) == NonEmpty(Map(strip, split(C, Comma)))

D_korean(planet_code) == <<get_planet_name(planet_code)>>

RECURSIVE append_all(_, _)
append_all(acc, cands) ==
    IF cands = <<>> THEN acc ELSE append_all(Append(acc, Head(cands)), Tail(cands))

RECURSIVE append_new(_, _)
\* if planet_korean not in D_planets: D_planets.append(planet_korean)
append_new(acc, cands) ==
    IF cands = <<>> THEN acc
    ELSE append_new(IF In(Head(cands), acc) THEN acc ELSE Append(acc, Head(cands)), Tail(cands))

RECURSIVE D_scan(_, _, _)
D_scan(acc, names, pl) ==
    IF names = <<>> THEN acc
    ELSE D_scan(append_new(acc,
                    Map(D_korean, SelectSeq(planet_items(pl),
                                            LAMBDA p : pl[p].nakshatra_lord = Head(names)))),
                Tail(names), pl)

\* D_planets: the planets whose nakshatra lord is an occupant named in C
D_planets(C, pl) == IF C # Dash THEN D_scan(<<>>, c_planet_names(C), pl) ELSE <<>>

\* ', '.join(lst) if lst else '-'
joined(lst) == IF lst # <<>> THEN join(lst, CommaSpace) ELSE Dash

\* a house_planets value that is not a string: generate_chart stores the value of a JSON
\* body as it came, here a number
JsonNumber == <<"json:7">>
is_str(v) == v # JsonNumber

\* the houses on which C.strip() raises AttributeError
strip_raises(hp) == {h \in Houses : h \in DOMAIN hp /\ ~is_str(hp[h])}

\* the iterations of for house_num in range(1, 13) that reach their end
houses_derived(hp) == {h \in Houses : \A b \in strip_raises(hp) : h < b}

house_significators_exclusive(hl, pl, hp) ==
    [h \in houses_derived(hp) |->
        [A |-> A_of(hl, h),
         B |-> joined(SelectSeq(B_planets(A_of(hl, h), pl),
                                LAMBDA n : \A o \in Houses : ~In(n, c_planet_names(C_of(hp, o))))),
         C |-> C_of(hp, h),
         D |-> joined(D_planets(C_of(hp, h), pl))]]

\* significators as the loop leaves it: an entry for every house it completed
house_significators(hl, pl, hp) ==
    [h \in houses_derived(hp) |->
        [A |-> A_of(hl, h),
         B |-> joined(B_planets(A_of(hl, h), pl)),
         C |-> C_of(hp, h),
         D |-> joined(D_planets(C_of(hp, h), pl))]]

\* house_sig.get(k).split(', ') if house_sig.get(k) != '-' else []
listed(str) == IF str # Dash THEN split(str, CommaSpace) ELSE <<>>

HouseSeq_descending == [i \in 1..12 |-> 13 - i]

\* for house_num in range(1, 13)
HouseSeq == [i \in 1..12 |-> i]

planet_korean_of(planet) == get_planet_name(planet)

planet_house_lists(sig) ==
    [pk \in {planet_korean_of(planets[i]) : i \in 1..Len(planets)} |->
        [A |-> SelectSeq(HouseSeq, LAMBDA h : sig[h].A = <<pk>>),
         B |-> SelectSeq(HouseSeq, LAMBDA h : In(<<pk>>, listed(sig[h].B))),
         C |-> SelectSeq(HouseSeq, LAMBDA h : In(<<pk>>, listed(sig[h].C))),
         D |-> SelectSeq(HouseSeq, LAMBDA h : In(<<pk>>, listed(sig[h].D)))]]

(***************************************************************************)
(* Inputs of the chart view: the chart records generate_chart can store    *)
(***************************************************************************)
NHouseIn == 2       \* houses that receive an angle and an occupancy
NPlanetIn == 2      \* planets that receive an angle

HouseInOrder == <<5, 8, 10, 1, 12>>
HousesIn  == {HouseInOrder[i] : i \in 1..NHouseIn}
PlanetsIn == {planets[i] : i \in 1..NPlanetIn}

Leo130    == <<"1", "3", "0", "º", "0", "0", "'", "0", "0", "\"">>   \* sign lord Su
Cancer100 == <<"1", "0", "0", "°", "3", "0", "'", "0", "0", "\"">>   \* sign lord Mo
Krittika30 == <<"0", "3", "0", "º", "0", "0", "'", "0", "0", "\"">>  \* nakshatra lord Su
Rohini45   == <<"0", "4", "5", "°", "0", "0", "'", "0", "0", "\"">>  \* nakshatra lord Mo
Malformed  == <<"1", "2", "x">>

HouseAngleInputs  == {Malformed, Leo130, Cancer100}
PlanetAngleInputs == {Malformed, Krittika30, Rohini45}
OccupancyInputs ==
    { <<" ">>,
      <<"Dal", ",", "Taeyang">>,
      <<"Taeyang", ",", " ", "Dal">>,
      <<"Dal", ",", " ", "Dal">> }

EmptyDict == [k \in {} |-> 0]

\* birth_date as the datetime-local field of the form sends it, and left empty
IsoInstant == <<"2024-01-15", "T", "17:37">>
BirthDateInputs == {IsoInstant, <<>>}

\* generate_chart: angles are stored only when non-empty, an occupancy for every house
stored_chart(birth_date, ha, pa, occ) ==
    [birth_date    |-> birth_date,
     house_angles  |-> [h \in {k \in DOMAIN ha : ha[k] # <<>>} |-> ha[h]],
     planet_angles |-> [p \in {k \in DOMAIN pa : pa[k] # <<>>} |-> pa[p]],
     house_planets |-> [h \in Houses |-> IF h \in DOMAIN occ THEN occ[h] ELSE <<>>]]

\* KPChart.__init__: datetime.fromisoformat when birth_date holds a 'T', else
\* datetime.strptime(birth_date, "%Y-%m-%d %H:%M:%S"); both raise ValueError on a
\* string of another form
KPChart(birth_date) ==
    IF In("T", birth_date)
    THEN (IF birth_date = IsoInstant THEN [kind |-> "object"]
          ELSE [kind |-> "raise", error |-> "ValueError"])
    ELSE (IF birth_date = <<"2024-01-15", " ", "17:37:00">> THEN [kind |-> "object"]
          ELSE [kind |-> "raise", error |-> "ValueError"])

NoError == ""

NoDms == [done |-> FALSE, d |-> 0, m |-> 0, s |-> 0, str |-> <<>>]
NoParse == [kind |-> "none"]
NoCuspIn == [used |-> FALSE]
NoCuspOut == [kind |-> "none"]

\* Python None
None == "None"

NoRequest  == [op |-> "none", accept |-> "", username |-> "", password |-> "",
               member_id |-> <<>>, chart_name |-> <<>>, chart_fields |-> ""]
NoResponse == [status |-> 0, location |-> "", is_update |-> FALSE]
NoSession  == [logged_in |-> FALSE, username |-> None]

StoreIdle ==
    /\ members = EmptyDict /\ session = NoSession
    /\ request = NoRequest /\ response = NoResponse /\ workers = EmptyDict

DmsIdle == deg_in = 0 /\ dms_out = NoDms /\ angle_in = <<>> /\ parsed = NoParse
CallIdle ==
    cusp_in = NoCuspIn /\ cusp_out = NoCuspOut /\ house_angles = NoCuspOut
        /\ equal_out = NoCuspOut
NoReturn == [method |-> "none"]
ObjIdle == kp_charts = <<>> /\ analyses = <<>> /\ clock = 0 /\ returned = NoReturn
CuspIdle == CallIdle /\ ObjIdle
SigIdle ==
    /\ chart_data = stored_chart(<<>>, [h \in HousesIn |-> <<>>], [p \in PlanetsIn |-> <<>>],
                                 [h \in HousesIn |-> <<>>])
    /\ house_lords = EmptyDict /\ planet_lords = EmptyDict
    /\ significators = EmptyDict /\ planet_significators = EmptyDict
    /\ view_pc = "idle" /\ error_message = NoError /\ master_ids = "abbrev"

InitSig ==
    /\ \E ha \in [HousesIn -> HouseAngleInputs], pa \in [PlanetsIn -> PlanetAngleInputs],
          occ \in [HousesIn -> OccupancyInputs] :
            chart_data = stored_chart(IsoInstant, ha, pa, occ)
    /\ house_lords = EmptyDict /\ planet_lords = EmptyDict
    /\ significators = EmptyDict /\ planet_significators = EmptyDict
    /\ view_pc = "start" /\ error_message = NoError /\ master_ids = "abbrev"
    /\ DmsIdle /\ CuspIdle

    /\ StoreIdle
\* the chart view.  try: KPChart construction, lordship resolution, per-house and
\* per-planet significators; except Exception: the response carries the tables as the
\* failing statement left them, and error_message
chart ==
    /\ view_pc = "start"
    /\ IF KPChart(chart_data.birth_date).kind = "raise"
       THEN /\ house_lords' = EmptyDict /\ planet_lords' = EmptyDict
            /\ significators' = EmptyDict /\ planet_significators' = EmptyDict
            /\ error_message' = KPChart(chart_data.birth_date).error
       ELSE /\ house_lords' = resolve_all(chart_data.house_angles)
            /\ planet_lords' = resolve_all(chart_data.planet_angles)
            /\ significators' = house_significators(house_lords', planet_lords',
                                                     chart_data.house_planets)
            /\ IF strip_raises(chart_data.house_planets) # {}
               THEN planet_significators' = EmptyDict /\ error_message' = "AttributeError"
               ELSE /\ planet_significators' = planet_house_lists(significators')
                    /\ error_message' = NoError
    /\ view_pc' = "done"
    /\ UNCHANGED <<storeVars, chart_data, master_ids, dmsVars, cuspVars>>

NextSig == chart
SpecSig == InitSig /\ [][NextSig]_vars

(***************************************************************************)
(* The chart view on the records a request body can leave in the store:    *)
(* an angle absent, malformed, blank or past 360, an occupancy that is not *)
(* a string, an empty birth_date, and either naming of the table's lords.  *)
(***************************************************************************)
ViewHouses  == {5, 8}
ViewPlanets == {"sun", "moon"}

Blank   == <<" ">>
Past360 == <<"4", "0", "0", "°">>

ViewHouseAngles  == {<<>>, Malformed, Blank, Past360, Leo130, Cancer100}
ViewPlanetAngles == {Malformed, Krittika30, Rohini45}
ViewOccupancies  == {<<>>, <<"Dal">>, <<"Dal", ",", " ", "Taeyang">>, JsonNumber}
MasterIdInputs   == {"abbrev", "english"}

InitView ==
    /\ \E bd \in BirthDateInputs, ha \in [ViewHouses -> ViewHouseAngles],
          pa \in [ViewPlanets -> ViewPlanetAngles], occ \in [ViewHouses -> ViewOccupancies] :
            chart_data = stored_chart(bd, ha, pa, occ)
    /\ master_ids \in MasterIdInputs
    /\ house_lords = EmptyDict /\ planet_lords = EmptyDict
    /\ significators = EmptyDict /\ planet_significators = EmptyDict
    /\ view_pc = "start" /\ error_message = NoError
    /\ DmsIdle /\ CuspIdle

    /\ StoreIdle
NextView == chart
SpecView == InitView /\ [][NextView]_vars

(***************************************************************************)
(* Floating point.  A float of the cusp pipeline is an integer number of   *)
(* degrees with at most MantBits significant bits; every arithmetic result *)
(* is rounded to the nearest such number, ties to even, as IEEE 754 does   *)
(* with 53 bits.  180 and 360 are representable, as they are in doubles.   *)
(***************************************************************************)
MantBits == 6

RECURSIVE Pow2(_)
Pow2(n) == IF n = 0 THEN 1 ELSE 2 * Pow2(n - 1)

\* the floats of spacing 1 end at MantLimit
MantLimit == Pow2(MantBits)

RECURSIVE ulp_from(_, _)
ulp_from(x, q) == IF x < MantLimit * q THEN q ELSE ulp_from(x, 2 * q)

\* the spacing of the floats around x >= 0
ulp(x) == ulp_from(x, 1)

\* round to nearest float, ties to even
fl(x) == IF x < 0 THEN 0 - round(0 - x, ulp(0 - x)) * ulp(0 - x)
         ELSE round(x, ulp(x)) * ulp(x)

IsFloat(x) == fl(x) = x

fadd(a, b) == fl(a + b)
fsub(a, b) == fl(a - b)

\* C fmod: exact, with the sign of a
fmod(a, b) == IF a < 0 THEN 0 - ((0 - a) % b) ELSE a % b

\* Python a % b for floats, b > 0: fmod, then b is added to a negative remainder
pymod(a, b) == IF fmod(a, b) < 0 THEN fl(fmod(a, b) + b) ELSE fmod(a, b)

\* a * (num / den), rounded once
fmul_ratio(a, num, den) ==
    IF a < 0 THEN 0 - fl(round((0 - a) * num, den)) ELSE fl(round(a * num, den))

(***************************************************************************)
(* kp.py: the house-cusp pipeline                                          *)
(***************************************************************************)
_to_sidereal(lon_tropical_deg, ayan_deg) == pymod(fsub(lon_tropical_deg, ayan_deg), 360)

\* return asc_deg % 360.0, on the angle math.degrees(math.atan2(y, x)) gives
_calculate_ascendant(asc_deg) == pymod(asc_deg, 360)

\* return mc_deg % 360.0
_calculate_mc(mc_deg) == pymod(mc_deg, 360)

quadrant_start(house_num, asc_deg, mc_deg) ==
    CASE house_num \in {2, 3}   -> asc_deg
      [] house_num \in {5, 6}   -> pymod(fadd(mc_deg, 180), 360)
      [] house_num \in {8, 9}   -> pymod(fadd(asc_deg, 180), 360)
      [] house_num \in {11, 12} -> mc_deg

quadrant_end(house_num, asc_deg, mc_deg) ==
    CASE house_num \in {2, 3}   -> pymod(fadd(mc_deg, 180), 360)
      [] house_num \in {5, 6}   -> pymod(fadd(asc_deg, 180), 360)
      [] house_num \in {8, 9}   -> mc_deg
      [] house_num \in {11, 12} -> asc_deg

\* fraction = (house_num - first house of the quadrant) / 3.0, as a number of thirds
fraction_thirds(house_num) == (house_num - 1) % 3

angle_diff_unreduced(start_point, end_point) == pymod(fsub(end_point, start_point), 360)

\* angle_diff: the difference end - start reduced to the shorter arc
angle_diff(start_point, end_point) ==
    LET diff == pymod(fsub(end_point, start_point), 360)
    IN  IF diff > 180 THEN fsub(diff, 360) ELSE diff

\* the term with math.cos in place of math.sin for the latitude
latitude_term_cosine(lat_deg) ==
    CASE lat_deg = 0 -> 46
      [] lat_deg = 37 -> 36
      [] lat_deg = -37 -> 36

\* math.degrees(math.sin(lat_rad) * math.sin(obl_rad)) * 2.0 at the obliquity of the
\* date (23.44 degrees): sin(0) is 0.0, sin(37 deg) * sin(23.44 deg) is 0.2394 rad
latitude_term(lat_deg) ==
    CASE lat_deg = 0 -> 0
      [] lat_deg = 37 -> 28
      [] lat_deg = -37 -> -28

\* the factor math.sin(math.radians(fraction * 90)): 0.5 at one third, 0.866 at two
fraction_sine(house_num, term) ==
    IF fraction_thirds(house_num) = 1 THEN fmul_ratio(term, 1, 2)
    ELSE fmul_ratio(term, 866, 1000)

\* placidus_correction, with the quadrant multiplier applied to it
placidus_correction(house_num, lat_deg) ==
    LET correction == fraction_sine(house_num, latitude_term(lat_deg))
    IN  CASE house_num \in {2, 8}  -> fmul_ratio(correction, 12, 10)
          [] house_num \in {3, 9}  -> fmul_ratio(correction, 15, 10)
          [] house_num \in {5, 11} -> fmul_ratio(correction, 8, 10)
          [] house_num \in {6, 12} -> fmul_ratio(correction, 11, 10)

_calculate_placidus_house_cusp_iterative(house_num, asc_deg, mc_deg, lat_deg) ==
    CASE house_num = 1  -> asc_deg
      [] house_num = 10 -> mc_deg
      [] house_num = 4  -> pymod(fadd(mc_deg, 180), 360)
      [] house_num = 7  -> pymod(fadd(asc_deg, 180), 360)
      [] OTHER ->
            LET start_point == quadrant_start(house_num, asc_deg, mc_deg)
                end_point   == quadrant_end(house_num, asc_deg, mc_deg)
                base_angle  == fadd(start_point,
                                    fmul_ratio(angle_diff(start_point, end_point),
                                               fraction_thirds(house_num), 3))
            IN  pymod(fadd(base_angle, placidus_correction(house_num, lat_deg)), 360)

_calculate_exact_placidus_houses(asc_deg, mc_deg, lat_deg) ==
    [i \in 1..12 |-> _calculate_placidus_house_cusp_iterative(i, asc_deg, mc_deg, lat_deg)]

AyanamsaNames == {"LAHIRI", "KP_NEW"}

\* the branch of "LAHIRI": 23.85291667 + 0.000139 * T - 0.0000001 * T * T, of which
\* formula_value is the value at the chart's instant
lahiri_ayan_deg(formula_value) == formula_value

kp_new_ayan_deg_shifted(formula_value) == fadd(formula_value, 1)

\* the branch of "KP_NEW": the same expression
kp_new_ayan_deg(formula_value) == formula_value

ayanamsa_stage_default(ayanamsa, ayan_deg) == [kind |-> "value", ayan_deg |-> ayan_deg]

\* step 6: the ayanamsa offset of the chart's instant, or the ValueError
ayanamsa_stage(ayanamsa, ayan_deg) ==
    IF ayanamsa = "LAHIRI" THEN [kind |-> "value", ayan_deg |-> lahiri_ayan_deg(ayan_deg)]
    ELSE IF ayanamsa = "KP_NEW" THEN [kind |-> "value", ayan_deg |-> kp_new_ayan_deg(ayan_deg)]
    ELSE [kind |-> "raise"]

cusp_rows_short(houses_sidereal) == [i \in 1..11 |-> [house |-> i, cusp |-> houses_sidereal[i]]]

\* return [(i + 1, houses_sidereal[i]) for i in range(12)]
cusp_rows(houses_sidereal) == [i \in 1..12 |-> [house |-> i, cusp |-> houses_sidereal[i]]]

Raise(error) == [kind |-> "raise", error |-> error, rows |-> <<>>]

\* compute_chalit_house_cusps: c holds the arguments tz_str (as whether pytz knows it),
\* house_system and ayanamsa, and the values the astronomy stages give for the instant
\* and place
compute_chalit_house_cusps(c) ==
    IF ~c.tz_known THEN Raise("UnknownTimeZoneError")
    ELSE LET asc == _calculate_ascendant(c.asc_deg)
             mc  == _calculate_mc(c.mc_deg)
             houses_tropical == _calculate_exact_placidus_houses(asc, mc, c.lat_deg)
             ayan == ayanamsa_stage(c.ayanamsa, c.ayan_deg)
         IN  IF ayan.kind = "raise" THEN Raise("ValueError: ayanamsa must be 'LAHIRI' or 'KP_NEW'")
             ELSE [kind |-> "return", error |-> "",
                   rows |-> cusp_rows([i \in 1..12 |->
                                _to_sidereal(houses_tropical[i], ayan.ayan_deg)])]

\* house_cusp = (asc_deg + i * 30.0) % 360.0 for i in range(12); the product i * 30.0
\* is exact in binary floating point
_calculate_equal_houses(asc_deg) == [i \in 1..12 |-> pymod(fadd(asc_deg, (i - 1) * 30), 360)]

\* compute_equal_house_cusps: the arguments and stage values of c as above; the
\* function has no house_system argument
compute_equal_house_cusps(c) ==
    IF ~c.tz_known THEN Raise("UnknownTimeZoneError")
    ELSE LET asc == _calculate_ascendant(c.asc_deg)
             houses_tropical == _calculate_equal_houses(asc)
             ayan == ayanamsa_stage(c.ayanamsa, c.ayan_deg)
         IN  IF ayan.kind = "raise" THEN Raise("ValueError: ayanamsa must be 'LAHIRI' or 'KP_NEW'")
             ELSE [kind |-> "return", error |-> "",
                   rows |-> cusp_rows([i \in 1..12 |->
                                _to_sidereal(houses_tropical[i], ayan.ayan_deg)])]

\* _dms on a float of the cusp pipeline (whole degrees)
dms_of_float(x) == _dms(x * Degree).str

\* KPChart.get_house_angles: the dict of DMS strings, or {"error": str(e)}
get_house_angles(c) ==
    LET rows == compute_chalit_house_cusps(c)
    IN  IF rows.kind = "raise" THEN [kind |-> "dict", error |-> rows.error, cusps |-> EmptyDict]
        ELSE [kind |-> "dict", error |-> "",
              cusps |-> [h \in {rows.rows[i].house : i \in 1..Len(rows.rows)} |->
                            dms_of_float(rows.rows[h].cusp)]]

(***************************************************************************)
(* Properties of the significator derivation                               *)
(***************************************************************************)
Categories == {"A", "B", "C", "D"}
PlanetNames == {planet_korean_of(planets[i]) : i \in 1..Len(planets)}

\* membership of a planet name in a per-house category entry: the entry itself for A,
\* the comma-separated list as the D computation parses it for B, C and D
member_of(pk, entry, k) ==
    IF k = "A" THEN entry = <<pk>>
    ELSE entry # Dash /\ In(<<pk>>, c_planet_names(entry))

\* C1: the per-planet table is the exact transpose of the per-house table: house h is
\* listed under planet p, category k, iff p is a member of category k of house h.
C1_Transpose ==
    view_pc = "done" =>
        \A pk \in PlanetNames, k \in Categories, h \in Houses :
            In(h, planet_significators[pk][k]) <=> member_of(pk, significators[h][k], k)

blank(str) == str = <<>> \/ \A i \in 1..Len(str) : str[i] = " "

\* C3: an unresolved sign lord A(h) gives an empty B(h), and a missing, empty or
\* whitespace-only occupancy of h gives an empty D(h).
C3_EmptyBD ==
    view_pc = "done" =>
        \A h \in Houses :
            /\ (h \notin DOMAIN chart_data.house_angles \/ significators[h].A = Dash)
                    => significators[h].B = Dash
            /\ (h \notin DOMAIN chart_data.house_planets \/ blank(chart_data.house_planets[h]))
                    => significators[h].D = Dash

\* a house with an unresolved sign lord next to a planet with an unresolved nakshatra
\* lord, and a house with a whitespace-only occupancy
C3_Witness ==
    /\ view_pc = "done"
    /\ \E h \in DOMAIN house_lords : house_lords[h].sign_lord = Dash
    /\ \E p \in DOMAIN planet_lords : planet_lords[p].nakshatra_lord = Dash
    /\ \E h \in Houses : chart_data.house_planets[h] = <<" ">>

\* C4: for a resolved sign lord A(h), B(h) is exactly the set of planets with a resolved
\* triple whose nakshatra lord is A(h).
C4_BExact ==
    view_pc = "done" =>
        \A h \in Houses :
            significators[h].A # Dash =>
                Range(listed(significators[h].B)) =
                    { <<planet_names[p]>> : p \in
                        { q \in DOMAIN planet_lords :
                            /\ planet_lords[q] # Unresolved
                            /\ planet_lords[q].nakshatra_lord = significators[h].A } }

\* a house whose B holds one planet and leaves out another, resolved, planet
C4_Witness ==
    /\ view_pc = "done"
    /\ \E h \in Houses :
        /\ significators[h].A # Dash
        /\ significators[h].B # Dash
        /\ \E q \in DOMAIN planet_lords :
            /\ planet_lords[q] # Unresolved
            /\ planet_lords[q].nakshatra_lord # significators[h].A

\* first discovery of a planet name: the first occupant it matches, then its place in
\* the planet table
first_occupant(x, names) ==
    CHOOSE i \in 1..Len(names) :
        /\ \E q \in DOMAIN planet_lords :
                <<planet_names[q]>> = x /\ planet_lords[q].nakshatra_lord = names[i]
        /\ \A j \in 1..(i - 1) :
                ~\E q \in DOMAIN planet_lords :
                    <<planet_names[q]>> = x /\ planet_lords[q].nakshatra_lord = names[j]

table_index(x) == CHOOSE i \in 1..Len(planets) : <<planet_names[planets[i]]>> = x

discovered_before(x, y, names) ==
    \/ first_occupant(x, names) < first_occupant(y, names)
    \/ /\ first_occupant(x, names) = first_occupant(y, names)
       /\ table_index(x) < table_index(y)

\* C5: D(h) lists the planets whose nakshatra lord is an occupant named in C(h), each
\* once, in order of first discovery (occupants in listed order, planets in table order).
C5_DList ==
    view_pc = "done" =>
        \A h \in Houses :
            LET names == IF significators[h].C = Dash THEN <<>>
                         ELSE c_planet_names(significators[h].C)
                D == listed(significators[h].D)
            IN  /\ Range(D) = { <<planet_names[q]>> : q \in
                                 { p \in DOMAIN planet_lords :
                                     In(planet_lords[p].nakshatra_lord, names) } }
                /\ \A i, j \in 1..Len(D) : i < j =>
                        D[i] # D[j] /\ discovered_before(D[i], D[j], names)

\* a D list of two planets out of planet-table order, and a D list whose only planet
\* matches an occupant that is named twice
C5_Witness ==
    /\ view_pc = "done"
    /\ \E h \in Houses :
        LET D == listed(significators[h].D)
        IN  Len(D) = 2 /\ table_index(D[2]) < table_index(D[1])
    /\ \E h \in Houses :
        /\ significators[h].C = <<"Dal", ",", " ", "Dal">>
        /\ Len(listed(significators[h].D)) = 1

(***************************************************************************)
(* _dms and the angle parser                                               *)
(***************************************************************************)
DmsDegreeInputs == {-1, 0, 1, 179, 359, 360}
DmsMinuteInputs == {0, 59}

InitDms ==
    /\ \E d \in DmsDegreeInputs, m \in DmsMinuteInputs, r \in 0..(ArcMin - 1) :
            deg_in = d * Degree + m * ArcMin + r
    /\ dms_out = NoDms /\ angle_in = <<>> /\ parsed = NoParse
    /\ SigIdle /\ CuspIdle

    /\ StoreIdle
\* _dms(deg_in)
to_dms ==
    /\ ~dms_out.done
    /\ dms_out' = [done |-> TRUE, d |-> _dms(deg_in).d, m |-> _dms(deg_in).m,
                   s |-> _dms(deg_in).s, str |-> _dms(deg_in).str]
    /\ angle_in' = dms_out'.str
    /\ UNCHANGED <<storeVars, deg_in, parsed, sigVars, cuspVars>>

\* the angle parser of the chart view on a supplied (truthy) angle string
parse_angle ==
    /\ angle_in # <<>> /\ parsed.kind = "none"
    /\ parsed' = total_degrees(angle_in)
    /\ UNCHANGED <<storeVars, deg_in, dms_out, angle_in, sigVars, cuspVars>>

NextDms == to_dms \/ parse_angle
SpecDms == InitDms /\ [][NextDms]_vars

\* C6: _dms carries a rounded 60 seconds into the minute and 60 minutes into the
\* degree modulo 360, so the degree field is in 0..359 and minute and second in 0..59.
C6_FieldRanges ==
    dms_out.done => dms_out.d \in 0..359 /\ dms_out.m \in 0..59 /\ dms_out.s \in 0..59

AtanDegrees == {x \in -180..180 : IsFloat(x)}
McInputs == {-90, 0, 100}
AyanInputs == {23, 24}
LatitudeInputs == {0, 37}
TimezoneKnownInputs == BOOLEAN
HouseSystemInputs == {"P", "E"}
AyanamsaInputs == {"LAHIRI", "KP_NEW", "FOO"}

InitCusp ==
    /\ \E asc \in AtanDegrees, mc \in McInputs, ayan \in AyanInputs, lat \in LatitudeInputs,
          tz \in TimezoneKnownInputs, hs \in HouseSystemInputs, ay \in AyanamsaInputs :
            cusp_in = [used |-> TRUE, tz_known |-> tz, house_system |-> hs, ayanamsa |-> ay,
                       asc_deg |-> asc, mc_deg |-> mc, ayan_deg |-> ayan, lat_deg |-> lat]
    /\ cusp_out = NoCuspOut /\ house_angles = NoCuspOut /\ equal_out = NoCuspOut
    /\ ObjIdle /\ SigIdle /\ DmsIdle

    /\ StoreIdle
call_compute_chalit_house_cusps ==
    /\ cusp_in.used /\ cusp_out.kind = "none"
    /\ cusp_out' = compute_chalit_house_cusps(cusp_in)
    /\ UNCHANGED <<storeVars, cusp_in, house_angles, equal_out, objVars, sigVars, dmsVars>>

call_get_house_angles ==
    /\ cusp_in.used /\ cusp_out.kind # "none" /\ house_angles.kind = "none"
    /\ house_angles' = get_house_angles(cusp_in)
    /\ UNCHANGED <<storeVars, cusp_in, cusp_out, equal_out, objVars, sigVars, dmsVars>>

call_compute_equal_house_cusps ==
    /\ cusp_in.used /\ house_angles.kind # "none" /\ equal_out.kind = "none"
    /\ equal_out' = compute_equal_house_cusps(cusp_in)
    /\ UNCHANGED <<storeVars, cusp_in, cusp_out, house_angles, objVars, sigVars, dmsVars>>

NextCusp ==
    call_compute_chalit_house_cusps \/ call_get_house_angles \/ call_compute_equal_house_cusps
SpecCusp == InitCusp /\ [][NextCusp]_vars

cusp(h) == cusp_out.rows[h].cusp

\* C2: the returned sidereal cusps satisfy cusp(7) = (cusp(1) + 180) mod 360 and
\* cusp(10) = (cusp(4) + 180) mod 360 exactly.
C2_Antipodal ==
    cusp_out.kind = "return" =>
        /\ cusp(7) = (cusp(1) + 180) % 360
        /\ cusp(10) = (cusp(4) + 180) % 360

UnknownAyanamsa == cusp_in.used /\ cusp_in.ayanamsa \notin AyanamsaNames
AyanamsaError == "ValueError: ayanamsa must be 'LAHIRI' or 'KP_NEW'"

C9_RejectsHouseSystem ==
    (cusp_in.used /\ cusp_in.house_system # "P") =>
        /\ cusp_out.kind # "none" => (cusp_out.kind = "raise" /\ cusp_out.rows = <<>>)
        /\ house_angles.kind # "none" =>
                (house_angles.error # "" /\ house_angles.cusps = EmptyDict)

StageFails == cusp_in.used /\ (~cusp_in.tz_known \/ cusp_in.ayanamsa \notin AyanamsaNames)

MalformedAngles == {Malformed, Blank}

\* the try block reached its return
Derived == view_pc = "done" /\ error_message = NoError

\* the angles dict without the entry of key k
without(angles, k) == [j \in DOMAIN angles \ {k} |-> angles[j]]

\* the other houses' triples and A, B, C, D entries are those of the record without
\* the angle of house h
others_as_if_absent(h) ==
    LET hl == resolve_all(without(chart_data.house_angles, h))
        sg == house_significators(hl, planet_lords, chart_data.house_planets)
    IN  \A o \in Houses \ {h} :
            /\ o \in DOMAIN house_lords <=> o \in DOMAIN hl
            /\ o \in DOMAIN hl => house_lords[o] = hl[o]
            /\ significators[o] = sg[o]

\* C11: a malformed angle string of house h leaves house h with the unresolved triple
\* and every other house with the triple and the A, B, C, D entries it has when the
\* angle of h is absent, and the derivation runs to its end.
C11_MalformedIsLocal ==
    (view_pc = "done" /\ KPChart(chart_data.birth_date).kind = "object"
        /\ strip_raises(chart_data.house_planets) = {}) =>
            /\ error_message = NoError
            /\ \A h \in DOMAIN chart_data.house_angles :
                    chart_data.house_angles[h] \in MalformedAngles =>
                        /\ h \in DOMAIN house_lords /\ house_lords[h] = Unresolved
                        /\ others_as_if_absent(h)

\* what does hold: the other houses are as if the angle were absent
C11_OthersUntouched ==
    Derived => \A h \in DOMAIN chart_data.house_angles :
                    chart_data.house_angles[h] \in MalformedAngles => others_as_if_absent(h)

\* a statement of the try block raises
ViewFails ==
    \/ KPChart(chart_data.birth_date).kind = "raise"
    \/ strip_raises(chart_data.house_planets) # {}

\* C12: when chart construction, lordship resolution or significator derivation fails,
\* the response carries an error message and empty per-house and per-planet
\* significator tables.
C12_FailureZeroesTables ==
    (view_pc = "done" /\ ViewFails) =>
        /\ error_message # NoError
        /\ significators = EmptyDict
        /\ planet_significators = EmptyDict

\* the nine canonical planet identifiers of the derivation, and the sentinel
CanonicalLords == {<<n>> : n \in PlanetNames} \cup {Dash}

canonical_triple(t) ==
    t.sign_lord \in CanonicalLords /\ t.nakshatra_lord \in CanonicalLords
        /\ t.sub_lord \in CanonicalLords

\* C13: every lord stored in house_lords and planet_lords is one of the nine canonical
\* planet identifiers or the unresolved sentinel, whatever the lookup table returned.
C13_CanonicalLords ==
    view_pc = "done" =>
        /\ \A h \in DOMAIN house_lords : canonical_triple(house_lords[h])
        /\ \A p \in DOMAIN planet_lords : canonical_triple(planet_lords[p])

\* the supplied angle strings that are malformed or denote an angle outside [0, 360)
UnresolvableAngles == MalformedAngles \cup {Past360}

\* all three lords are the sentinel, or none is
all_or_none(t) ==
    \/ t = Unresolved
    \/ t.sign_lord # Dash /\ t.nakshatra_lord # Dash /\ t.sub_lord # Dash

records_unresolved(angles, lords) ==
    /\ \A k \in DOMAIN angles :
            angles[k] \in UnresolvableAngles => (k \in DOMAIN lords /\ lords[k] = Unresolved)
    /\ \A k \in DOMAIN lords : all_or_none(lords[k])

\* C14: for every supplied house or planet angle string that is malformed or outside
\* [0, 360) the resolution step records the all-unresolved triple, never a mix of
\* resolved and unresolved lords and never a missing entry, and does not raise.
C14_UnresolvedRecorded ==
    (view_pc = "done" /\ KPChart(chart_data.birth_date).kind = "object") =>
        /\ records_unresolved(chart_data.house_angles, house_lords)
        /\ records_unresolved(chart_data.planet_angles, planet_lords)
        /\ error_message # NoError => strip_raises(chart_data.house_planets) # {}

(***************************************************************************)
(* kp.py: KPChart.analyze_chart.  A KPChart object is the record of its    *)
(* fields; the instant and the place stand as the values the astronomy     *)
(* stages give for them.  The calls run one after another in any order.    *)
(***************************************************************************)
\* get_planet_angles(), get_house_planets() and the "analysis" entry return literals
get_planet_angles == [sun |-> <<"274°45'21\"">>, moon |-> <<"273°50'17\"">>]
get_house_planets == [h \in Houses |-> IF h = 10 THEN <<"Dal", ",", " ", "Taeyang">> ELSE <<>>]

analyze_chart_timestamped(self) ==
    [basic_info    |-> self,
     generated_at  |-> clock,
     house_angles  |-> get_house_angles(self),
     planet_angles |-> get_planet_angles,
     house_planets |-> get_house_planets]

analyze_chart(self) ==
    [basic_info    |-> self,
     house_angles  |-> get_house_angles(self),
     planet_angles |-> get_planet_angles,
     house_planets |-> get_house_planets]

NCharts == 3        \* KPChart objects

KPChartInputs ==
    { [used |-> TRUE, tz_known |-> TRUE, house_system |-> "P", ayanamsa |-> ay,
       asc_deg |-> 23, mc_deg |-> 100, ayan_deg |-> 24, lat_deg |-> 37] :
        ay \in {"LAHIRI", "FOO"} }

NoAnalysis == [kind |-> "none"]

InitObj ==
    /\ kp_charts \in [1..NCharts -> KPChartInputs]
    /\ analyses = [i \in 1..NCharts |-> NoAnalysis]
    /\ clock = 0
    /\ returned = NoReturn
    /\ chart_data = stored_chart(IsoInstant, [h \in ViewHouses |-> Leo130],
                                 [q \in ViewPlanets |-> Krittika30],
                                 [h \in ViewHouses |-> <<"Dal">>])
    /\ master_ids = "abbrev"
    /\ house_lords = EmptyDict /\ planet_lords = EmptyDict
    /\ significators = EmptyDict /\ planet_significators = EmptyDict
    /\ view_pc = "start" /\ error_message = NoError
    /\ CallIdle /\ DmsIdle

    /\ StoreIdle
\* one execution of kp_chart.analyze_chart() on object i
call_analyze_chart(i) ==
    /\ analyses[i].kind = "none"
    /\ analyses' = [analyses EXCEPT ![i] = [kind |-> "dict", at |-> clock,
                                            output |-> analyze_chart(kp_charts[i])]]
    /\ clock' = clock + 1
    /\ UNCHANGED <<storeVars, kp_charts, returned, callVars, sigVars, dmsVars>>

\* get_house_angles() that replaces an ayanamsa it does not know by the default
call_get_house_angles_defaulting(i) ==
    /\ kp_charts' = [kp_charts EXCEPT ![i].ayanamsa =
                        IF @ \in AyanamsaNames THEN @ ELSE "LAHIRI"]
    /\ returned' = [method |-> "get_house_angles", self |-> i,
                    value |-> get_house_angles(kp_charts'[i])]
    /\ UNCHANGED <<storeVars, analyses, clock, callVars, sigVars, dmsVars>>

\* one execution of kp_chart.get_house_angles() on object i
call_get_house_angles_of(i) ==
    /\ returned' = [method |-> "get_house_angles", self |-> i,
                    value |-> get_house_angles(kp_charts[i])]
    /\ UNCHANGED <<storeVars, kp_charts, analyses, clock, callVars, sigVars, dmsVars>>

\* one execution of kp_chart.get_planet_angles() on object i
call_get_planet_angles(i) ==
    /\ returned' = [method |-> "get_planet_angles", self |-> i, value |-> get_planet_angles]
    /\ UNCHANGED <<storeVars, kp_charts, analyses, clock, callVars, sigVars, dmsVars>>

\* one execution of kp_chart.get_house_planets() on object i
call_get_house_planets(i) ==
    /\ returned' = [method |-> "get_house_planets", self |-> i, value |-> get_house_planets]
    /\ UNCHANGED <<storeVars, kp_charts, analyses, clock, callVars, sigVars, dmsVars>>

NextObj ==
    \/ \E i \in 1..NCharts : call_analyze_chart(i)
    \/ \E i \in 1..NCharts : call_get_house_angles_of(i)
    \/ \E i \in 1..NCharts : call_get_planet_angles(i)
    \/ \E i \in 1..NCharts : call_get_house_planets(i)
    \/ chart
SpecObj == InitObj /\ [][NextObj]_vars

occupies(p, h) ==
    /\ C_of(chart_data.house_planets, h) # Dash
    /\ In(<<planet_korean_of(p)>>, c_planet_names(C_of(chart_data.house_planets, h)))

\* the nakshatra lord of planet code p is the resolved sign lord of house h
star_of_sign_lord(p, h) ==
    /\ p \in DOMAIN planet_lords /\ h \in DOMAIN house_lords
    /\ house_lords[h].sign_lord # Dash
    /\ planet_lords[p].nakshatra_lord = house_lords[h].sign_lord

\* C16: a planet listed in the occupancy of house h whose nakshatra lord is the
\* resolved sign lord of house h2 is in C(h) and in B(h2) of the same result.
C16_InBAndC ==
    Derived =>
        \A p \in DOMAIN planet_lords, h2 \in DOMAIN house_lords, h \in Houses :
            (star_of_sign_lord(p, h2) /\ occupies(p, h)) =>
                /\ In(<<planet_korean_of(p)>>, c_planet_names(significators[h].C))
                /\ In(<<planet_korean_of(p)>>, listed(significators[h2].B))

\* the single occupant of house 8 has the sign lord of house 5 as its nakshatra lord
C16_Witness ==
    /\ Derived
    /\ chart_data.house_planets[8] = <<"Dal">>
    /\ occupies("moon", 8) /\ star_of_sign_lord("moon", 5)
    /\ significators[5].B # Dash /\ significators[8].C = <<"Dal">>

\* every entry is a house number 1..12 and the entries strictly ascend
ascending_houses(lst) ==
    /\ \A i \in 1..Len(lst) : lst[i] \in 1..12
    /\ \A i, j \in 1..Len(lst) : i < j => lst[i] < lst[j]

\* C17: after a successful derivation the per-house table has exactly the keys 1..12,
\* and every per-planet category list holds house numbers in 1..12, each at most once,
\* in ascending order.
C17_HouseNumbers ==
    Derived =>
        /\ DOMAIN significators = 1..12
        /\ \A pk \in DOMAIN planet_significators :
                /\ ascending_houses(planet_significators[pk].A)
                /\ ascending_houses(planet_significators[pk].B)
                /\ ascending_houses(planet_significators[pk].C)
                /\ ascending_houses(planet_significators[pk].D)

\* a planet listed under two houses in two categories
C17_Witness ==
    /\ Derived
    /\ DOMAIN planet_significators = PlanetNames
    /\ planet_significators["Dal"].C = <<5, 8>>
    /\ planet_significators["Dal"].A = <<5, 8>>

(***************************************************************************)
(* The angle parser on supplied strings of one, two and three components   *)
(***************************************************************************)
Glyphs == {"°", "º"}
ParseDegrees == {0, 7, 130, 359}
ParseMinutes == {0, 30, 59}
ParseSeconds == {0, 1, 59}

\* the text of an angle with its first n components, as in "353°03'58\""
angle_text(d, m, s, glyph, n) ==
    zfill(decimal(d), 3) \o <<glyph>>
        \o (IF n > 1 THEN zfill(decimal(m), 2) \o <<"'">> ELSE <<>>)
        \o (IF n > 2 THEN zfill(decimal(s), 2) \o <<"\"">> ELSE <<>>)

InitParse ==
    /\ \E d \in ParseDegrees, m \in ParseMinutes, s \in ParseSeconds, g \in Glyphs, n \in 1..3 :
            angle_in = angle_text(d, m, s, g, n)
    /\ deg_in = 0 /\ dms_out = NoDms /\ parsed = NoParse
    /\ SigIdle /\ CuspIdle

    /\ StoreIdle
NextParse == parse_angle
SpecParse == InitParse /\ [][NextParse]_vars

\* C18: the parser accepts either degree glyph and takes a missing minutes or seconds
\* component as 0: d parses to d, d m to d + m/60, d m s to d + m/60 + s/3600, and two
\* strings that differ only in the glyph parse to the same value.
C18_ParsedValue ==
    parsed.kind # "none" =>
        \A d \in ParseDegrees, m \in ParseMinutes, s \in ParseSeconds, g \in Glyphs, n \in 1..3 :
            angle_in = angle_text(d, m, s, g, n) =>
                /\ parsed.kind = "value"
                /\ parsed.total = d * Degree + (IF n > 1 THEN m * ArcMin ELSE 0)
                                    + (IF n > 2 THEN s * ArcSec ELSE 0)
                /\ \A g2 \in Glyphs : total_degrees(angle_text(d, m, s, g2, n)) = parsed

\* degrees and minutes only, with the masculine-ordinal glyph
C18_Witness ==
    /\ angle_in = <<"1", "3", "0", "º", "3", "0", "'">>
    /\ parsed.kind = "value" /\ parsed.total = 130 * Degree + 30 * ArcMin

(***************************************************************************)
(* Properties of the two cusp functions                                    *)
(***************************************************************************)
\* the call made with ayanamsa name a
with_ayanamsa(a) == [cusp_in EXCEPT !.ayanamsa = a]

other_ayanamsa == IF cusp_in.ayanamsa = "LAHIRI" THEN "KP_NEW" ELSE "LAHIRI"

\* C19: LAHIRI and KP_NEW are both accepted and give the same 12 cusps, from
\* compute_chalit_house_cusps and from compute_equal_house_cusps, for every instant,
\* place and house system.
C19_SameCusps ==
    (cusp_in.used /\ cusp_in.ayanamsa \in AyanamsaNames) =>
        /\ cusp_out.kind # "none" =>
                /\ cusp_in.tz_known => cusp_out.kind = "return"
                /\ compute_chalit_house_cusps(with_ayanamsa(other_ayanamsa)) = cusp_out
        /\ equal_out.kind # "none" =>
                /\ cusp_in.tz_known => equal_out.kind = "return"
                /\ compute_equal_house_cusps(with_ayanamsa(other_ayanamsa)) = equal_out

\* both functions returned 12 cusps for KP_NEW, with a sidereal shift that shows
C19_Witness ==
    /\ cusp_in.used /\ cusp_in.ayanamsa = "KP_NEW"
    /\ cusp_out.kind = "return" /\ equal_out.kind = "return"
    /\ Len(cusp_out.rows) = 12 /\ Len(equal_out.rows) = 12
    /\ other_ayanamsa = "LAHIRI"
    /\ equal_out.rows[1].cusp # _calculate_ascendant(cusp_in.asc_deg)

canonical_rows(out) ==
    /\ Len(out.rows) = 12
    /\ \A i \in 1..12 : out.rows[i].house = i
    /\ \A i \in 1..Len(out.rows) : 0 <= out.rows[i].cusp /\ out.rows[i].cusp < 360

\* C20: every cusp returned by compute_chalit_house_cusps and by
\* compute_equal_house_cusps lies in [0, 360), and the list has the 12 entries
\* numbered 1..12 in ascending order.
C20_CuspRange ==
    /\ cusp_out.kind = "return" => canonical_rows(cusp_out)
    /\ equal_out.kind = "return" => canonical_rows(equal_out)

(***************************************************************************)
(* Properties of the intermediate cusps                                    *)
(***************************************************************************)
IntermediateHouses == {2, 3, 5, 6, 8, 9, 11, 12}

\* the fixed points of the call, and the quadrant of intermediate house h
asc_point == _calculate_ascendant(cusp_in.asc_deg)
mc_point  == _calculate_mc(cusp_in.mc_deg)
start_of(h) == quadrant_start(h, asc_point, mc_point)
end_of(h)   == quadrant_end(h, asc_point, mc_point)
diff_used(h) == angle_diff(start_of(h), end_of(h))

Abs(x) == IF x < 0 THEN 0 - x ELSE x

\* x is (end - start) + 360 k for a whole k, up to the rounding of one subtraction
\* and one modulo at the magnitude of a full circle
FullTurnUlp == ulp(360)

congruent_to_span(x, h) ==
    LET span == end_of(h) - start_of(h)
    IN  \E k \in {-1, 0, 1} : Abs(x - (span + 360 * k)) <= FullTurnUlp

\* C21: for each intermediate house the difference used by the interpolation is
\* congruent to (end - start) mod 360 and lies in (-180, 180].
C21_ShorterArc ==
    cusp_out.kind = "return" =>
        \A h \in IntermediateHouses :
            LET d == diff_used(h)
            IN  /\ -180 < d /\ d <= 180
                /\ congruent_to_span(d, h)

\* a quadrant that spans the 0/360 wrap: the plain difference is below -180 and the
\* one used is the short positive arc
C21_Witness ==
    /\ cusp_out.kind = "return"
    /\ \E h \in IntermediateHouses :
            /\ end_of(h) - start_of(h) < -180
            /\ diff_used(h) > 0 /\ diff_used(h) < 180


ic_point   == pymod(fadd(mc_point, 180), 360)
desc_point == pymod(fadd(asc_point, 180), 360)

\* the quadrant of an intermediate house and the share of it the house takes
quadrant_of(h) ==
    CASE h \in {2, 3}   -> [from |-> asc_point,  to |-> ic_point]
      [] h \in {5, 6}   -> [from |-> ic_point,   to |-> desc_point]
      [] h \in {8, 9}   -> [from |-> desc_point, to |-> mc_point]
      [] h \in {11, 12} -> [from |-> mc_point,   to |-> asc_point]

thirds_of(h) == IF h \in {2, 5, 8, 11} THEN 1 ELSE 2

interpolated(h) ==
    fadd(quadrant_of(h).from,
         fmul_ratio(angle_diff(quadrant_of(h).from, quadrant_of(h).to), thirds_of(h), 3))

sidereal_of(x) == _to_sidereal(x, ayanamsa_stage(cusp_in.ayanamsa, cusp_in.ayan_deg).ayan_deg)

\* C22: houses 2, 5, 8, 11 lie one third and houses 3, 6, 9, 12 two thirds of the way
\* through their quadrant (Asc -> IC, IC -> Desc, Desc -> MC, MC -> Asc); at latitude 0
\* the tropical cusp is exactly (start + reduced difference * fraction) mod 360, and at
\* any other latitude the latitude-scaled correction is added before the modulo.
C22_Interpolation ==
    cusp_out.kind = "return" =>
        \A h \in IntermediateHouses :
            LET base == interpolated(h)
            IN  cusp_out.rows[h].cusp =
                    IF cusp_in.lat_deg = 0 THEN sidereal_of(pymod(base, 360))
                    ELSE sidereal_of(pymod(fadd(base, placidus_correction(h, cusp_in.lat_deg)), 360))

C22_Witness ==
    /\ cusp_out.kind = "return"
    /\ cusp_in.lat_deg = 0
    /\ \E h \in {3, 6, 9, 12} :
            /\ interpolated(h) < 0
            /\ angle_diff(quadrant_of(h).from, quadrant_of(h).to) < 0
            /\ cusp_out.rows[h].cusp = sidereal_of(pymod(interpolated(h), 360))

(***************************************************************************)
(* Properties of the reading operations                                    *)
(***************************************************************************)
\* C23: no call of get_house_angles, get_planet_angles, get_house_planets or
\* analyze_chart, in any order and on any object, changes a field of a KPChart
\* object, and the chart view leaves the stored chart record as it was.
C23_ReadOnly == [][kp_charts' = kp_charts /\ chart_data' = chart_data]_vars

\* the view answered from the stored record, one object was analysed and the getter
\* called last computed the cusps of another
C23_Witness ==
    /\ view_pc = "done" /\ error_message = NoError /\ house_lords # EmptyDict
    /\ returned.method = "get_house_angles" /\ returned.value.error = ""
    /\ \E i \in DOMAIN analyses : i # returned.self /\ analyses[i].kind = "dict"

(***************************************************************************)
(* app.py: the user store, the session and the members store.  A handler   *)
(* has no await between its first file read and its last file write, so    *)
(* within one server process each request is one step.                     *)
(***************************************************************************)
Users          == {"u", "v"}
UsernameInputs == Users \cup {"w"}
PasswordInputs == {"pw-u", "pw-v"}
AcceptInputs   == {"text/html", "application/json"}
ChartNames     == {<<"a">>, <<"b">>}
ChartData      == {"d1", "d2"}

\* a field the body does not have, or has as ''
Missing == <<>>

\* load_users(): users.json as a dict by username
load_users == [x \in Users |-> [username |-> x, password |-> IF x = "u" THEN "pw-u" ELSE "pw-v"]]

dict_get(d, k) == IF k \in DOMAIN d THEN d[k] ELSE EmptyDict
dict_set(d, k, v) == [x \in DOMAIN d \cup {k} |-> IF x = k THEN v ELSE d[x]]
dict_del(d, k) == [x \in DOMAIN d \ {k} |-> d[x]]

\* json.dump followed by json.load: the key None is written as "null", after a key
\* "null" the file already had, and the last of two equal keys is the one loaded
json_file(d) ==
    [x \in (DOMAIN d \ {None}) \cup (IF None \in DOMAIN d THEN {"null"} ELSE {}) |->
        IF x = "null" /\ None \in DOMAIN d THEN d[None] ELSE d[x]]

\* get_user_members on the file content all_members
get_user_members(all_members, username) == dict_get(all_members, username)

\* save_user_member that writes the user's charts as the whole file
save_user_member_alone(all_members, username, member_id, member_data) ==
    json_file(dict_set(EmptyDict, username,
                       dict_set(dict_get(all_members, username), member_id, member_data)))

\* save_user_member on the file content all_members: the content save_members writes
save_user_member(all_members, username, member_id, member_data) ==
    json_file(dict_set(all_members, username,
                       dict_set(dict_get(all_members, username), member_id, member_data)))

\* del all_members[current_user][member_id]; save_members(all_members)
delete_user_member(all_members, username, member_id) ==
    json_file(dict_set(all_members, username, dict_del(all_members[username], member_id)))

\* get_current_user / login_required on a request with the given Accept header
get_current_user(accept) ==
    IF ~session.logged_in
    THEN IF accept = "text/html" THEN [kind |-> "return", user |-> None]
         ELSE [kind |-> "raise", user |-> None]
    ELSE [kind |-> "return", user |-> session.username]

Req(op, accept, chart_name) == [NoRequest EXCEPT !.op = op, !.accept = accept,
                                                 !.chart_name = chart_name]
Resp(status, location, is_update) ==
    [status |-> status, location |-> location, is_update |-> is_update]

\* POST /login
login(username, password) ==
    /\ request' = [NoRequest EXCEPT !.op = "login", !.username = username,
                                    !.password = password]
    /\ IF username \in DOMAIN load_users /\ load_users[username].password = password
       THEN /\ session' = [logged_in |-> TRUE, username |-> username]
            /\ response' = Resp(302, "/", FALSE)
       ELSE /\ session' = session
            /\ response' = Resp(302, "/login", FALSE)
    /\ UNCHANGED <<members, workers, sigVars, dmsVars, cuspVars>>

\* GET /logout
logout ==
    /\ request' = Req("logout", "", <<>>)
    /\ session' = NoSession
    /\ response' = Resp(302, "/login", FALSE)
    /\ UNCHANGED <<members, workers, sigVars, dmsVars, cuspVars>>

\* GET /
index(accept) ==
    /\ request' = Req("index", accept, <<>>)
    /\ response' = IF get_current_user(accept).kind = "raise" THEN Resp(401, "", FALSE)
                   ELSE IF get_current_user(accept).user = None THEN Resp(302, "/login", FALSE)
                   ELSE Resp(200, "", FALSE)
    /\ UNCHANGED <<members, session, workers, sigVars, dmsVars, cuspVars>>

\* POST /generate_chart with a body of member_id, chart_name and the chart's fields
generate_chart(accept, member_id, chart_name, chart_fields) ==
    /\ request' = [Req("generate_chart", accept, chart_name) EXCEPT
                        !.member_id = member_id, !.chart_fields = chart_fields]
    /\ LET current_user == get_current_user(accept)
       IN  IF current_user.kind = "raise"
           THEN response' = Resp(401, "", FALSE) /\ members' = members
           ELSE IF member_id = Missing \/ chart_name = Missing
           THEN response' = Resp(400, "", FALSE) /\ members' = members
           ELSE IF ~is_str(chart_name)
           THEN response' = Resp(500, "", FALSE) /\ members' = members
           ELSE IF blank(chart_name)
           THEN response' = Resp(400, "", FALSE) /\ members' = members
           ELSE /\ response' = Resp(200, "",
                        chart_name \in DOMAIN get_user_members(members, current_user.user))
                /\ members' = save_user_member(members, current_user.user, chart_name,
                                               chart_fields)
    /\ UNCHANGED <<session, workers, sigVars, dmsVars, cuspVars>>

\* GET /api/member/{member_id}
api_member(accept, member_id) ==
    /\ request' = Req("api_member", accept, member_id)
    /\ LET current_user == get_current_user(accept)
       IN  response' =
             IF current_user.kind = "raise" THEN Resp(401, "", FALSE)
             ELSE IF member_id \notin DOMAIN get_user_members(members, current_user.user)
             THEN Resp(404, "", FALSE)
             ELSE Resp(200, "", FALSE)
    /\ UNCHANGED <<members, session, workers, sigVars, dmsVars, cuspVars>>

\* GET /chart/{chart_name}: the lookup that precedes the derivation
chart_page(accept, chart_name) ==
    /\ request' = Req("chart", accept, chart_name)
    /\ LET current_user == get_current_user(accept)
       IN  response' =
             IF current_user.kind = "raise" THEN Resp(401, "", FALSE)
             ELSE IF chart_name \notin DOMAIN get_user_members(members, current_user.user)
             THEN Resp(404, "", FALSE)
             ELSE Resp(200, "", FALSE)
    /\ UNCHANGED <<members, session, workers, sigVars, dmsVars, cuspVars>>

\* api_delete_member that deletes the name from every user's charts
api_delete_member_everywhere(accept, member_id) ==
    /\ request' = Req("api_delete_member", accept, member_id)
    /\ LET current_user == get_current_user(accept)
       IN  IF current_user.kind = "raise"
           THEN response' = Resp(401, "", FALSE) /\ members' = members
           ELSE IF member_id \notin DOMAIN get_user_members(members, current_user.user)
           THEN response' = Resp(404, "", FALSE) /\ members' = members
           ELSE /\ response' = Resp(200, "", FALSE)
                /\ members' = [k \in DOMAIN members |-> dict_del(members[k], member_id)]
    /\ UNCHANGED <<session, workers, sigVars, dmsVars, cuspVars>>

\* DELETE /api/member/{member_id}
api_delete_member(accept, member_id) ==
    /\ request' = Req("api_delete_member", accept, member_id)
    /\ LET current_user == get_current_user(accept)
       IN  IF current_user.kind = "raise"
           THEN response' = Resp(401, "", FALSE) /\ members' = members
           ELSE IF member_id \notin DOMAIN get_user_members(members, current_user.user)
           THEN response' = Resp(404, "", FALSE) /\ members' = members
           ELSE IF current_user.user \in DOMAIN members
                    /\ member_id \in DOMAIN members[current_user.user]
           THEN /\ response' = Resp(200, "", FALSE)
                /\ members' = delete_user_member(members, current_user.user, member_id)
           ELSE response' = Resp(404, "", FALSE) /\ members' = members
    /\ UNCHANGED <<session, workers, sigVars, dmsVars, cuspVars>>

\* request bodies: the complete ones, and one without member_id, one without
\* chart_name, one with a chart name of spaces and one with a JSON number for it
Body(member_id, chart_name, chart_fields) ==
    [member_id |-> member_id, chart_name |-> chart_name, chart_fields |-> chart_fields]
CompleteBodies == {Body(<<"m">>, n, d) : n \in ChartNames, d \in ChartData}
RejectedBodies == {Body(Missing, <<"a">>, "d1"), Body(<<"m">>, Missing, "d1"),
                   Body(<<"m">>, <<" ">>, "d1"), Body(<<"m">>, JsonNumber, "d1")}
BodyInputs == CompleteBodies \cup RejectedBodies

InitStore ==
    /\ members = EmptyDict /\ session = NoSession
    /\ request = NoRequest /\ response = NoResponse /\ workers = EmptyDict
    /\ SigIdle /\ DmsIdle /\ CuspIdle

NextStore ==
    \/ \E username \in UsernameInputs, password \in PasswordInputs : login(username, password)
    \/ logout
    \/ \E accept \in AcceptInputs : index(accept)
    \/ \E accept \in AcceptInputs, data \in BodyInputs :
            generate_chart(accept, data.member_id, data.chart_name, data.chart_fields)
    \/ \E accept \in AcceptInputs, member_id \in ChartNames : api_member(accept, member_id)
    \/ \E accept \in AcceptInputs, chart_name \in ChartNames : chart_page(accept, chart_name)
    \/ \E accept \in AcceptInputs, member_id \in ChartNames :
            api_delete_member(accept, member_id)

SpecStore == InitStore /\ [][NextStore]_vars

(***************************************************************************)
(* Properties of the sessions and the members store                        *)
(***************************************************************************)
\* what login_required hands to the handler of the request of this step
current_user_of_step == get_current_user(request'.accept)

\* the handler of this step ran: login_required did not raise 401
handled(op) == request'.op = op /\ current_user_of_step.kind = "return"

UserKeys == DOMAIN members \cup DOMAIN members' \cup Users

\* C24: a request to generate_chart or api_delete_member in a session that is not
\* logged in, whatever its Accept header, leaves the members store as it was.
C24_GuardedNoChange ==
    [][(request'.op \in {"generate_chart", "api_delete_member"} /\ ~session.logged_in)
            => members' = members]_vars

\* C25: a generate_chart or api_delete_member request in a session logged in as u
\* leaves the entry of every other user key v as it was, so get_user_members(v)
\* returns after it what it returned before and nothing that u saved.
C25_UserIsolation ==
    [][(session.logged_in /\ request'.op \in {"generate_chart", "api_delete_member"}) =>
            \A v \in UserKeys \ {session.username} :
                /\ v \in DOMAIN members' <=> v \in DOMAIN members
                /\ get_user_members(members', v) = get_user_members(members, v)]_vars

\* u deleted its chart "a" and v's chart of the same name is still stored
C25_Witness ==
    /\ session = [logged_in |-> TRUE, username |-> "u"]
    /\ request.op = "api_delete_member" /\ request.chart_name = <<"a">>
    /\ response.status = 200
    /\ <<"a">> \notin DOMAIN get_user_members(members, "u")
    /\ <<"b">> \in DOMAIN get_user_members(members, "u")
    /\ <<"a">> \in DOMAIN get_user_members(members, "v")

\* C27: generate_chart is an upsert keyed by chart name.  On success the store of the
\* user holds the new chart data under chart_name, every other chart of the user is
\* unchanged and is_update tells whether the name was there before the save; a body
\* without member_id or chart_name, or with a chart name of spaces, is answered 400
\* and the store is unchanged.
C27_Upsert ==
    [][handled("generate_chart") =>
            LET user   == current_user_of_step.user
                before == get_user_members(members, user)
                after  == get_user_members(members', user)
                name   == request'.chart_name
            IN  /\ response'.status = 200 =>
                    /\ name \in DOMAIN after /\ after[name] = request'.chart_fields
                    /\ DOMAIN after = DOMAIN before \cup {name}
                    /\ \A n \in DOMAIN before \ {name} : after[n] = before[n]
                    /\ response'.is_update <=> name \in DOMAIN before
                /\ (request'.member_id = Missing \/ name = Missing \/ blank(name)) =>
                    response'.status = 400 /\ members' = members]_vars

\* C28: api_delete_member removes the named chart of the current user and nothing
\* else; when the user has no chart of that name the answer is 404 and the store is
\* unchanged; while the user has no chart of a name, api_member and the chart page
\* answer 404 for it, and only a successful generate_chart of that user for that
\* name brings it back.
C28_Delete ==
    [][/\ handled("api_delete_member") =>
            LET user   == current_user_of_step.user
                before == get_user_members(members, user)
                name   == request'.chart_name
            IN  IF name \in DOMAIN before
                THEN /\ response'.status = 200
                     /\ \A k \in UserKeys :
                            get_user_members(members', k) =
                                IF k = user THEN dict_del(before, name)
                                ELSE get_user_members(members, k)
                ELSE response'.status = 404 /\ members' = members
       /\ (handled("api_member") \/ handled("chart")) =>
            (request'.chart_name \notin DOMAIN get_user_members(members, current_user_of_step.user)
                => response'.status = 404)
       /\ \A u \in Users, n \in ChartNames :
            (n \notin DOMAIN get_user_members(members, u)
                    /\ n \in DOMAIN get_user_members(members', u))
                => /\ handled("generate_chart") /\ response'.status = 200
                   /\ current_user_of_step.user = u /\ request'.chart_name = n]_vars

\* u deleted one of its two charts; the other one and v's chart of the deleted name
\* are still stored
C28_Witness ==
    /\ session = [logged_in |-> TRUE, username |-> "u"]
    /\ request.op = "api_delete_member" /\ request.chart_name = <<"b">>
    /\ response.status = 200
    /\ <<"b">> \notin DOMAIN get_user_members(members, "u")
    /\ get_user_members(members, "u") = dict_set(EmptyDict, <<"a">>, "d2")
    /\ <<"b">> \in DOMAIN get_user_members(members, "v")

valid_login(r) ==
    /\ r.op = "login" /\ r.username \in DOMAIN load_users
    /\ load_users[r.username].password = r.password

ProtectedOps == {"index", "generate_chart", "api_member", "chart", "api_delete_member"}

refused(r) == r.status = 401 \/ (r.status = 302 /\ r.location = "/login")

\* C29: the session becomes logged in, or logged in as another user, only by a login
\* request with a stored username and its stored password; a failed login in a
\* session that is not logged in leaves it so; logout leaves the session not logged
\* in; and a protected request in a session that is not logged in is refused, by a
\* redirect to the login page or by 401.
C29_SessionProtocol ==
    [][/\ (session'.logged_in /\ session' # session) =>
            valid_login(request') /\ session'.username = request'.username
       /\ (request'.op = "login" /\ ~valid_login(request') /\ ~session.logged_in) =>
            ~session'.logged_in
       /\ request'.op = "logout" => ~session'.logged_in
       /\ (request'.op \in ProtectedOps /\ ~session.logged_in) => refused(response')]_vars

(***************************************************************************)
(* app.py: two server processes on the one members file.  Each runs one    *)
(* operation; the file reads and the file write of an operation are steps  *)
(* of their own, and nothing orders the steps of one process against those *)
(* of the other.                                                           *)
(***************************************************************************)
Workers == {"w1", "w2"}

Stored(kv) == [k \in DOMAIN kv |-> [n \in kv[k] |-> "d1"]]

\* contents of members.json when the two operations start
RaceStores ==
    {Stored([u |-> {<<"a">>, <<"b">>}, v |-> {<<"a">>}]),
     Stored([u |-> {<<"a">>}, v |-> {<<"a">>, <<"b">>}])}

Operation(op, username, member_id) ==
    [op |-> op, username |-> username, member_id |-> member_id, member_data |-> "d2",
     pc |-> IF op = "api_delete_member" THEN "lookup" ELSE "load",
     all_members |-> EmptyDict, status |-> 0]

OperationInputs ==
    {Operation(op, username, member_id) :
        op \in {"save_user_member", "api_delete_member"}, username \in Users,
        member_id \in ChartNames}

target(o) == <<o.username, o.member_id>>

InitRace ==
    /\ members \in RaceStores
    /\ workers \in {f \in [Workers -> OperationInputs] : target(f["w1"]) # target(f["w2"])}
    /\ session = NoSession /\ request = NoRequest /\ response = NoResponse
    /\ SigIdle /\ DmsIdle /\ CuspIdle

\* api_delete_member: members = get_user_members(current_user) and the 404 of a name
\* that is not in it
api_delete_member_lookup(w) ==
    /\ workers[w].pc = "lookup"
    /\ workers' = [workers EXCEPT ![w] =
            IF workers[w].member_id \in DOMAIN get_user_members(members, workers[w].username)
            THEN [@ EXCEPT !.pc = "load"]
            ELSE [@ EXCEPT !.pc = "done", !.status = 404]]
    /\ UNCHANGED <<members, session, request, response, sigVars, dmsVars, cuspVars>>

\* all_members = load_members(), in save_user_member and in api_delete_member
load_members(w) ==
    /\ workers[w].pc = "load"
    /\ workers' = [workers EXCEPT ![w] = [@ EXCEPT !.pc = "save", !.all_members = members]]
    /\ UNCHANGED <<members, session, request, response, sigVars, dmsVars, cuspVars>>

\* the change of all_members and save_members(all_members)
save_members(w) ==
    /\ workers[w].pc = "save"
    /\ LET o == workers[w]
       IN  IF o.op = "save_user_member"
           THEN /\ members' = save_user_member(o.all_members, o.username, o.member_id,
                                               o.member_data)
                /\ workers' = [workers EXCEPT ![w] = [@ EXCEPT !.pc = "done", !.status = 200]]
           ELSE IF o.username \in DOMAIN o.all_members
                    /\ o.member_id \in DOMAIN o.all_members[o.username]
           THEN /\ members' = delete_user_member(o.all_members, o.username, o.member_id)
                /\ workers' = [workers EXCEPT ![w] = [@ EXCEPT !.pc = "done", !.status = 200]]
           ELSE /\ members' = members
                /\ workers' = [workers EXCEPT ![w] = [@ EXCEPT !.pc = "done", !.status = 404]]
    /\ UNCHANGED <<session, request, response, sigVars, dmsVars, cuspVars>>

NextRace ==
    \/ \E w \in Workers : api_delete_member_lookup(w)
    \/ \E w \in Workers : load_members(w)
    \/ \E w \in Workers : save_members(w)

SpecRace == InitRace /\ [][NextRace]_vars

\* the file shows what operation o did
reflected(o) ==
    IF o.op = "save_user_member"
    THEN /\ o.member_id \in DOMAIN get_user_members(members, o.username)
         /\ get_user_members(members, o.username)[o.member_id] = o.member_data
    ELSE o.status = 200 => o.member_id \notin DOMAIN get_user_members(members, o.username)

\* C26: when two operations on different charts, each a save_user_member or an
\* api_delete_member, have run with their file reads and file writes interleaved in
\* any order, the members file reflects both.
C26_NoLostUpdate ==
    (\A w \in Workers : workers[w].pc = "done") => \A w \in Workers : reflected(workers[w])
====
